---- MODULE Spec2Model ----
(***************************************************************************)
(* TabbedBrowser (qutebrowser/widgets/_tabbedbrowser.py) as a state        *)
(* machine: the tab widget's pages and current index, the tracking list    *)
(* _tabs, the undo stack _url_stack, the outstanding tab shutdown          *)
(* callbacks, the signals shutdown_complete and quit, and the tabs'        *)
(* signals with their caches and what reaches the cur_* signals.           *)
(*                                                                         *)
(* Indices are the source's: currentIndex() is 0-based and -1 when the     *)
(* widget holds no page; the sequences are TLA+ sequences, so page i of    *)
(* the widget is tabs[i + 1].                                              *)
(***************************************************************************)
EXTENDS Integers, Sequences, FiniteSets

\* ------------------------------------------------------------------ bounds
\* BrowserTab objects created in a run of Spec; a run of SpecTabs, which has no
\* teardown to follow, creates one more, so that an undo can follow two closes.
MaxTabs == 3
\* Largest [count] a command is given.
MaxCount == 3
\* Calls of shutdown().
MaxShutdownCalls == 1

\* Tab identities: never reused.
TabIds == 1..(MaxTabs + 1)
\* currentWidget() / cntwidget() returning None.
NoTab == 0
Urls == {"a", "b"}
Blank == "about:blank"
NoUrl == ""
LastCloseValues == {"quit", "blank"}
Counts == 0..MaxCount
\* The counts a command line can hand to tabclose: 0 and negatives included.
CloseCounts == (0 - 1)..MaxCount
\* The tab signals wired to a cur_* signal, by the tab's name for them.
Kinds == {"linkHovered", "loadProgress", "loadFinished", "loadStarted",
          "statusBarMessage", "scroll_pos_changed", "urlChanged"}
\* What a signal carries: two values tell the latest from an earlier one.
Values == {1, 2}
\* A signal the cache of a tab does not hold.
NoValue == 0

VARIABLES
    tabs,               \* the widget's pages in display order (TabWidget)
    cur,                \* currentIndex(): 0-based, -1 when there is no page
    _tabs,              \* self._tabs
    _url_stack,         \* self._url_stack
    url,                \* tab.url() of every tab created
    created,            \* number of BrowserTab objects created so far
    requested,          \* per tab: calls of tab.shutdown(callback=...)
    delivered,          \* per tab: calls of _cb_tab_shutdown(tab)
    connected,          \* whether currentChanged is still wired to the replay
    shutdown_complete,  \* emissions of the shutdown_complete signal
    quit,               \* emissions of the quit signal by the handler that ran last
    signal_cache,       \* per tab: tab.signal_cache, the value held per signal
    cur_out,            \* the cur_* emissions of the handler that ran last
    shutdownCalls,      \* calls of shutdown()
    drain,              \* what the first shutdown() call found
    op                  \* the handler that ran last, its arguments and report

vars == <<tabs, cur, _tabs, _url_stack, url, created, requested, delivered,
          connected, shutdown_complete, quit, signal_cache, cur_out,
          shutdownCalls, drain, op>>

\* ----------------------------------------------------------------- helpers
Range(s) == {s[i] : i \in 1..Len(s)}

\* list.remove(x) on a list holding x: the first occurrence goes.
RECURSIVE RemoveFirst(_, _)
RemoveFirst(s, x) ==
    IF s = <<>> THEN <<>>
    ELSE IF Head(s) = x THEN Tail(s)
    ELSE <<Head(s)>> \o RemoveFirst(Tail(s), x)

\* The sequence without its element at 1-based position p.
DropAt(s, p) == SubSeq(s, 1, p - 1) \o SubSeq(s, p + 1, Len(s))

\* self.count()
count == Len(tabs)

\* self.widget(idx): the page at 0-based idx, None when there is none.
widget(idx) == IF idx >= 0 /\ idx < count THEN tabs[idx + 1] ELSE NoTab

\* self.currentWidget()
currentWidget == widget(cur)

Op(name, given, cnt, cfg, err, exc) ==
    [name |-> name, given |-> given, count |-> cnt, cfg |-> cfg,
     err |-> err, exc |-> exc, value |-> NoValue]

\* A tab's signal as the handler that ran last: the tab, the signal and the
\* value it carried.
EventOp(tab, kind, v) ==
    [name |-> "event", given |-> TRUE, count |-> tab, cfg |-> kind,
     err |-> "", exc |-> "", value |-> v]

NoDrain == [batch |-> {}, early |-> {}, opened |-> 0]

\* Callbacks registered with tab.shutdown() and not yet invoked.
Outstanding(t) == requested[t] - delivered[t]

\* tab.shutdown(callback=partial(self._cb_tab_shutdown, tab)) on every tab
\* of the set: each call registers one callback.
TabShutdown(ts) == [t \in TabIds |-> requested[t] + (IF t \in ts THEN 1 ELSE 0)]

\* -------------------------------------------------------------------- Init
Init ==
    /\ tabs = <<>>
    /\ cur = -1
    /\ _tabs = <<>>
    /\ _url_stack = <<>>
    /\ url = [t \in TabIds |-> NoUrl]
    /\ created = 0
    /\ requested = [t \in TabIds |-> 0]
    /\ delivered = [t \in TabIds |-> 0]
    /\ connected = TRUE
    /\ shutdown_complete = 0
    /\ quit = 0
    /\ signal_cache = [t \in TabIds |-> [k \in Kinds |-> NoValue]]
    /\ cur_out = {}
    /\ shutdownCalls = 0
    /\ drain = NoDrain
    /\ op = Op("init", FALSE, 0, "", "", "")

\* ---------------------------------------------------- currentChanged wiring
\* tab.signal_cache.replay(): every signal the cache holds is emitted again
\* with the value held for it.
Replay(tab) ==
    IF tab = NoTab THEN {}
    ELSE {<<k, signal_cache[tab][k]>> :
              k \in {kk \in Kinds : signal_cache[tab][kk] # NoValue}}

\* A faulty ReplayTarget: the page that was current before the change.
ReplayTarget_Previous(newTabs, idx) == currentWidget

\* The lambda wired to currentChanged: self.widget(idx), on the pages the
\* widget holds when the signal is emitted.
ReplayTarget(newTabs, idx) ==
    IF idx >= 0 /\ idx < Len(newTabs) THEN newTabs[idx + 1] ELSE NoTab

\* The widget emits currentChanged(idx) when its current index or the page at
\* it is no longer what it was.
CurrentChanged(newTabs, newCur) ==
    \/ newCur # cur
    \/ ReplayTarget(newTabs, newCur) # currentWidget

\* What a command that leaves the pages newTabs and the index newCur emits on
\* the cur_* signals: the replay of the page that became current, as long as
\* currentChanged is wired.
OnCurrentChanged(newTabs, newCur) ==
    IF connected /\ CurrentChanged(newTabs, newCur)
    THEN Replay(ReplayTarget(newTabs, newCur))
    ELSE {}

\* ----------------------------------------------------------------- tabopen
\* addTab(tab, ...): the page is appended; a widget that was empty makes it
\* the current page, otherwise the current index stays.
AddTabCur == IF count = 0 THEN 0 ELSE cur

\* A faulty OpenCur: a background open puts the old index back.
OpenCur_KeepIndex(background) == IF background THEN cur ELSE count

\* tabopen's last step: setCurrentWidget(tab) unless background.
OpenCur(background) == IF background THEN AddTabCur ELSE count

\* The state change of tabopen(url, background).
DoTabopen(u, background) ==
    LET tab == created + 1 IN
    /\ created' = tab
    /\ _tabs' = Append(_tabs, tab)
    /\ tabs' = Append(tabs, tab)
    /\ url' = [url EXCEPT ![tab] = u]
    /\ cur' = OpenCur(background)

tabopen(u, background) ==
    /\ DoTabopen(u, background)
    /\ op' = Op("tabopen", FALSE, 0, IF background THEN "bg" ELSE "fg", "", "")
    /\ quit' = 0
    /\ cur_out' = OnCurrentChanged(tabs', cur')
    /\ UNCHANGED <<_url_stack, requested, delivered, connected,
                   shutdown_complete, signal_cache, shutdownCalls, drain>>

\* ---------------------------------------------------------------- tabclose
\* A faulty cntwidget: the 1-based count taken for the 0-based index.
cntwidget_OneBased(given, c) ==
    IF ~given THEN currentWidget
    ELSE IF 1 <= c /\ c <= count THEN widget(c)
    ELSE NoTab

\* cntwidget(count); count is None when not given.
cntwidget(given, c) ==
    IF ~given THEN currentWidget
    ELSE IF 1 <= c /\ c <= count THEN widget(c - 1)
    ELSE NoTab

\* A faulty CloseIdx: the 1-based count taken for the 0-based index.
CloseIdx_OneBased(given, c) == IF given THEN c ELSE cur

\* tabclose: idx = self.currentIndex() if count is None else count - 1
CloseIdx(given, c) == IF given THEN c - 1 ELSE cur

\* A faulty MoreThanOne: the last tab is closed like any other.
MoreThanOne_OrOne == count >= 1

\* tabclose: if self.count() > 1
MoreThanOne == count > 1

\* The current index removeTab(idx) may leave. A page before the current one
\* shifts it; removing the current page selects the page the tab bar's
\* selectionBehaviorOnRemove names (left, right or previously selected: the
\* setting is TabWidget's and not this file's, so any remaining page).
RemoveTabCur(idx) ==
    IF idx < 0 \/ idx >= count THEN {cur}
    ELSE IF count = 1 THEN {-1}
    ELSE IF idx < cur THEN {cur - 1}
    ELSE IF idx > cur THEN {cur}
    ELSE 0..(count - 2)

\* The pages removeTab(idx) leaves.
RemoveTabPages(idx) ==
    IF idx < 0 \/ idx >= count THEN tabs ELSE DropAt(tabs, idx + 1)

tabclose(given, c, last_close) ==
    LET idx == CloseIdx(given, c)
        tab == cntwidget(given, c)
    IN
    /\ op' = Op("tabclose", given, c, last_close, "", "")
    /\ UNCHANGED <<_tabs, created, delivered, connected, shutdown_complete,
                   signal_cache, shutdownCalls, drain>>
    /\ IF tab = NoTab THEN
           /\ quit' = 0
           /\ UNCHANGED <<tabs, cur, _url_stack, url, requested>>
       ELSE IF MoreThanOne THEN
           /\ _url_stack' = Append(_url_stack, url[tab])
           /\ tabs' = RemoveTabPages(idx)
           /\ cur' \in RemoveTabCur(idx)
           /\ requested' = TabShutdown({tab})
           /\ quit' = 0
           /\ UNCHANGED url
       ELSE IF last_close = "quit" THEN
           /\ quit' = 1
           /\ UNCHANGED <<tabs, cur, _url_stack, url, requested>>
       ELSE IF last_close = "blank" THEN
           /\ url' = [url EXCEPT ![tab] = Blank]
           /\ quit' = 0
           /\ UNCHANGED <<tabs, cur, _url_stack, requested>>
       ELSE
           /\ quit' = 0
           /\ UNCHANGED <<tabs, cur, _url_stack, url, requested>>
    /\ cur_out' = OnCurrentChanged(tabs', cur')

\* -------------------------------------------------------------- undo_close
\* A faulty Pop: pop(0), the oldest element.
Pop_First(stack) == [item |-> Head(stack), rest |-> Tail(stack)]

\* self._url_stack.pop(): the last element and the list without it.
Pop(stack) ==
    [item |-> stack[Len(stack)], rest |-> SubSeq(stack, 1, Len(stack) - 1)]

undo_close ==
    /\ quit' = 0
    /\ UNCHANGED <<requested, delivered, connected, shutdown_complete,
                   signal_cache, shutdownCalls, drain>>
    /\ IF _url_stack # <<>> THEN
           /\ DoTabopen(Pop(_url_stack).item, FALSE)
           /\ _url_stack' = Pop(_url_stack).rest
           /\ op' = Op("undo", FALSE, 0, "", "", "")
       ELSE
           /\ op' = Op("undo", FALSE, 0, "", "Nothing to undo!", "")
           /\ UNCHANGED <<tabs, cur, _tabs, _url_stack, url, created>>
    /\ cur_out' = OnCurrentChanged(tabs', cur')

\* ------------------------------------------------ switch_prev, switch_next
\* setCurrentIndex(i): an index that names no page is ignored.
SetCurrentIndex(i) == IF i >= 0 /\ i < count THEN i ELSE cur

\* A faulty SwitchTo: the wrap takes one turn around the tabs only.
SwitchTo_WrapOnce(newidx, inRange, wrap, boundary) ==
    IF inRange THEN
        [cur |-> SetCurrentIndex(newidx), err |-> "", exc |-> ""]
    ELSE IF wrap THEN
        IF count = 0 THEN
            [cur |-> cur, err |-> "", exc |-> "ZeroDivisionError"]
        ELSE
            [cur |-> SetCurrentIndex(IF newidx < 0 THEN newidx + count
                                     ELSE newidx - count),
             err |-> "", exc |-> ""]
    ELSE
        [cur |-> cur, err |-> boundary, exc |-> ""]

\* The outcome of a switch to newidx that left the range tested by inRange:
\* the new current index, the message.error text and the exception raised.
SwitchTo(newidx, inRange, wrap, boundary) ==
    IF inRange THEN
        [cur |-> SetCurrentIndex(newidx), err |-> "", exc |-> ""]
    ELSE IF wrap THEN
        IF count = 0 THEN
            [cur |-> cur, err |-> "", exc |-> "ZeroDivisionError"]
        ELSE
            [cur |-> SetCurrentIndex(newidx % count), err |-> "", exc |-> ""]
    ELSE
        [cur |-> cur, err |-> boundary, exc |-> ""]

SwitchPrev(c, wrap) ==
    LET newidx == cur - c IN SwitchTo(newidx, newidx >= 0, wrap, "First tab")

\* A faulty SwitchNext: the index one past the last page passes for a page.
SwitchNext_OnePast(c, wrap) ==
    LET newidx == cur + c IN SwitchTo(newidx, newidx <= count, wrap, "Last tab")

SwitchNext(c, wrap) ==
    LET newidx == cur + c IN SwitchTo(newidx, newidx < count, wrap, "Last tab")

switch_prev(c, wrap) ==
    LET r == SwitchPrev(c, wrap) IN
    /\ cur' = r.cur
    /\ op' = Op("tabprev", TRUE, c, IF wrap THEN "wrap" ELSE "nowrap",
                r.err, r.exc)
    /\ quit' = 0
    /\ UNCHANGED <<tabs, _tabs, _url_stack, url, created, requested, delivered,
                   connected, shutdown_complete, signal_cache, shutdownCalls,
                   drain>>
    /\ cur_out' = OnCurrentChanged(tabs', cur')

switch_next(c, wrap) ==
    LET r == SwitchNext(c, wrap) IN
    /\ cur' = r.cur
    /\ op' = Op("tabnext", TRUE, c, IF wrap THEN "wrap" ELSE "nowrap",
                r.err, r.exc)
    /\ quit' = 0
    /\ UNCHANGED <<tabs, _tabs, _url_stack, url, created, requested, delivered,
                   connected, shutdown_complete, signal_cache, shutdownCalls,
                   drain>>
    /\ cur_out' = OnCurrentChanged(tabs', cur')

\* ---------------------------------------------------------------- shutdown
\* A faulty NoTabs: the empty widget is not special-cased.
NoTabs_Never(tabcount) == tabcount < 0

\* shutdown: if tabcount == 0
NoTabs(tabcount) == tabcount = 0

\* shutdown: the tabs of the loop, self.widget(tabidx) for tabidx in
\* range(tabcount).
ShutdownTargets(tabcount) == {widget(tabidx) : tabidx \in 0..(tabcount - 1)}

\* A faulty Disconnected: the wiring is left as it was.
Disconnected_AsBefore == connected

\* shutdown: self.currentChanged.disconnect(), the TypeError of a signal
\* with no connection passed over: currentChanged is wired to nothing.
Disconnected == FALSE

shutdown ==
    LET tabcount == count IN
    /\ shutdownCalls' = shutdownCalls + 1
    /\ connected' = Disconnected
    /\ drain' = IF shutdownCalls = 0
                THEN [batch |-> ShutdownTargets(tabcount),
                      early |-> {t \in TabIds : Outstanding(t) > 0},
                      opened |-> created]
                ELSE drain
    /\ op' = Op("shutdown", FALSE, 0, "", "", "")
    /\ IF NoTabs(tabcount) THEN
           /\ shutdown_complete' = shutdown_complete + 1
           /\ UNCHANGED requested
       ELSE
           /\ requested' = TabShutdown(ShutdownTargets(tabcount))
           /\ UNCHANGED shutdown_complete
    /\ quit' = 0
    /\ cur_out' = {}
    /\ UNCHANGED <<tabs, cur, _tabs, _url_stack, url, created, delivered,
                   signal_cache>>

\* -------------------------------------------------------- _cb_tab_shutdown
\* self._tabs.remove(tab), the ValueError of a tab not in the list caught.
TabsAfterRemoving(tab) ==
    IF tab \in Range(_tabs) THEN RemoveFirst(_tabs, tab) ELSE _tabs

\* A faulty AllShutDown: off by one, the last tab is not waited for.
AllShutDown_ButOne(left) == Len(left) <= 1

\* A faulty AllShutDown: only the tabs still in the widget are waited for.
AllShutDown_Visible(left) == Range(left) \cap Range(tabs) = {}

\* _cb_tab_shutdown: if not self._tabs
AllShutDown(left) == left = <<>>

\* A tab invokes a callback it was given: _cb_tab_shutdown(tab) runs.
_cb_tab_shutdown(tab) ==
    /\ Outstanding(tab) > 0
    /\ delivered' = [delivered EXCEPT ![tab] = @ + 1]
    /\ _tabs' = TabsAfterRemoving(tab)
    /\ shutdown_complete' =
           IF AllShutDown(_tabs') THEN shutdown_complete + 1
           ELSE shutdown_complete
    /\ op' = Op("cb", TRUE, tab,
                IF tab \in Range(_tabs) THEN "removed" ELSE "not in _tabs",
                "", "")
    /\ quit' = 0
    /\ cur_out' = {}
    /\ UNCHANGED <<tabs, cur, _url_stack, url, created, requested, connected,
                   signal_cache, shutdownCalls, drain>>

\* ------------------------------------------------------------- tab signals
\* tab.signal_cache.clear(): the cache holds nothing.
CacheClear(cache) == [k \in Kinds |-> NoValue]

\* The cache takes the value of the signal in place of the one it held.
CacheAdd(cache, kind, v) == [cache EXCEPT ![kind] = v]

\* A faulty CacheAfter: loadStarted reaches the filter before the lambda that
\* clears the cache.
CacheAfter_FilterFirst(cache, kind, v) ==
    IF kind = "loadStarted" THEN CacheClear(CacheAdd(cache, kind, v))
    ELSE CacheAdd(cache, kind, v)

\* _connect_tab_signals: the slots of a tab signal run in the order of their
\* connection. loadStarted is connected to the lambda that clears the cache
\* and then to the filter; every other signal to the filter alone.
CacheAfter(cache, kind, v) ==
    IF kind = "loadStarted" THEN CacheAdd(CacheClear(cache), kind, v)
    ELSE CacheAdd(cache, kind, v)

\* A faulty ThroughFilter: loadProgress is connected to cur_progress itself.
ThroughFilter_ProgressDirect(kind) == kind # "loadProgress"

\* _connect_tab_signals: every signal of Kinds is connected to its cur_*
\* signal through self._filter.create(...).
ThroughFilter(kind) == kind \in Kinds

\* The filter lets a signal through when its sender is the current page.
FromCurrent(tab) == tab # NoTab /\ currentWidget = tab

\* A tab that was created emits one of its signals.
tab_signal(tab, kind, v) ==
    /\ tab <= created
    /\ signal_cache' = [signal_cache EXCEPT ![tab] = CacheAfter(@, kind, v)]
    /\ cur_out' = IF ThroughFilter(kind) => FromCurrent(tab)
                  THEN {<<kind, v>>} ELSE {}
    /\ op' = EventOp(tab, kind, v)
    /\ quit' = 0
    /\ UNCHANGED <<tabs, cur, _tabs, _url_stack, url, created, requested,
                   delivered, connected, shutdown_complete, shutdownCalls,
                   drain>>

\* -------------------------------------------------------------------- Next
\* The commands and callbacks, their inputs drawn from the given sets and the
\* unbounded counters (tabs created, shutdown() calls) capped.
Open(maxTabs, urls) ==
    /\ created < maxTabs
    /\ \E u \in urls, background \in BOOLEAN : tabopen(u, background)

Close(counts, lastCloses) ==
    \E last_close \in lastCloses :
        \/ tabclose(FALSE, 0, last_close)
        \/ \E c \in counts : tabclose(TRUE, c, last_close)

Undo(maxTabs) ==
    /\ created < maxTabs \/ _url_stack = <<>>
    /\ undo_close

Switch(counts, wraps) ==
    \E c \in counts, wrap \in wraps :
        \/ switch_prev(c, wrap)
        \/ switch_next(c, wrap)

Shutdown(maxCalls) ==
    /\ shutdownCalls < maxCalls
    /\ shutdown

Callback == \E tab \in TabIds : _cb_tab_shutdown(tab)

Signal(kinds, values) ==
    \E tab \in TabIds, kind \in kinds, v \in values : tab_signal(tab, kind, v)

\* The whole life of the widget: every command, shutdown() and the tabs'
\* callbacks. The URLs do not matter to the teardown, so one is opened.
Next ==
    \/ Open(MaxTabs, {"a"})
    \/ Close(1..MaxTabs, {"quit"})
    \/ Undo(MaxTabs)
    \/ Switch({1}, {TRUE})
    \/ Shutdown(MaxShutdownCalls)
    \/ Callback

Spec == Init /\ [][Next]_vars

\* The command surface alone: open, close and undo with distinct URLs, every
\* count and both last_close policies.
NextTabs ==
    \/ Open(MaxTabs + 1, Urls)
    \/ Close(Counts, LastCloseValues)
    \/ Undo(MaxTabs + 1)

SpecTabs == Init /\ [][NextTabs]_vars

\* shutdown() entered twice, on a smaller widget.
NextReenter ==
    \/ Open(MaxTabs - 1, {"a"})
    \/ Close(1..MaxTabs, {"quit"})
    \/ Shutdown(MaxShutdownCalls + 1)
    \/ Callback

SpecReenter == Init /\ [][NextReenter]_vars

\* The tab switches with every count and both settings of wrap, on widgets
\* that opens and closes (of every count, the unusable ones included) shape.
NextSwitch ==
    \/ Open(MaxTabs, {"a"})
    \/ Close(CloseCounts, {"quit"})
    \/ Switch(Counts, BOOLEAN)

SpecSwitch == Init /\ [][NextSwitch]_vars

\* The tabs' signals between the commands that change the current page:
\* loadStarted, which carries nothing, and loadProgress with its values.
NextSignals ==
    \/ Open(MaxTabs - 1, {"a"})
    \/ Close({1}, {"quit"})
    \/ Undo(MaxTabs)
    \/ Switch({1}, {TRUE})
    \/ Signal({"loadStarted"}, {1})
    \/ Signal({"loadProgress"}, Values)

SpecSignals == Init /\ [][NextSignals]_vars

\* The same signals around shutdown(), which unwires currentChanged.
NextTeardown ==
    \/ Open(MaxTabs - 1, {"a"})
    \/ Close({1}, {"quit"})
    \/ Switch({1}, {TRUE})
    \/ Shutdown(MaxShutdownCalls)
    \/ Signal({"loadStarted"}, {1})
    \/ Signal({"loadProgress"}, Values)

SpecTeardown == Init /\ [][NextTeardown]_vars

\* Every tab that was asked to shut down delivers its callback.
FairSpec == Spec /\ \A tab \in TabIds : WF_vars(_cb_tab_shutdown(tab))

\* ================================================================== claims
\* The target of tabclose(count) as the command's user names it: the current
\* page, or the page at 1-based position count; 0 when there is none.
TargetPos(o) ==
    IF ~o.given THEN (IF cur >= 0 /\ cur < count THEN cur + 1 ELSE 0)
    ELSE IF o.count >= 1 /\ o.count <= count THEN o.count
    ELSE 0

\* ---------------------------------------------------------------------- C1
\* shutdown() ran once on at least one tab, every callback registered before
\* it had been delivered, no tab was opened since and no tab was asked twice.
C1_Pre ==
    /\ shutdownCalls = 1
    /\ drain.batch # {}
    /\ drain.early = {}
    /\ created = drain.opened
    /\ \A t \in TabIds : requested[t] <= 1

\* C1: shutdown_complete is never emitted before every one of the K >= 1 tabs
\* open at shutdown() has confirmed; and after one shutdown(), with no
\* callback outstanding from before, no tab opened since and every tab asked
\* once, it has been emitted once if all K have confirmed and not at all
\* otherwise: never twice.
C1_ExactlyOnce ==
    /\ (drain.batch # {} /\ shutdown_complete >= 1) =>
           \A t \in drain.batch : delivered[t] >= 1
    /\ C1_Pre =>
           shutdown_complete =
               IF \A t \in drain.batch : delivered[t] = 1 THEN 1 ELSE 0

\* The last of K >= 2 confirmations has arrived, out of the order of the
\* requests, and completion has been emitted.
C1_Witness ==
    /\ C1_Pre
    /\ Cardinality(drain.batch) >= 2
    /\ shutdown_complete = 1
    /\ op.name = "cb"
    /\ \E t \in drain.batch : t > op.count

\* ---------------------------------------------------------------------- C2
\* C2: when tabs closed with tabclose() still had their callbacks outstanding
\* at the first shutdown(), shutdown_complete is emitted only once those tabs
\* and every tab of the batch have confirmed.
C2_OnlyAfterAll ==
    (drain.early # {} /\ drain.batch # {} /\ shutdown_complete >= 1) =>
        \A t \in drain.early \cup drain.batch : delivered[t] >= 1

\* Completion was emitted by the confirmation of a tab closed before
\* shutdown(): the batch had confirmed before it.
C2_Witness ==
    /\ drain.early # {}
    /\ drain.batch # {}
    /\ shutdown_complete = 1
    /\ op.name = "cb"
    /\ op.count \in drain.early
    /\ delivered[op.count] = 1

\* ---------------------------------------------------------------------- C3
\* C3: shutdown() on a widget without tabs emits shutdown_complete once
\* inside the call and asks no tab to shut down.
C3_EmptyShutdown ==
    [][(op'.name = "shutdown" /\ count = 0) =>
           /\ shutdown_complete' = shutdown_complete + 1
           /\ requested' = requested]_vars

\* shutdown() has just run on the widget that never held a tab.
C3_Witness ==
    /\ op.name = "shutdown"
    /\ count = 0
    /\ shutdown_complete = 1
    /\ \A t \in TabIds : requested[t] = 0

\* ---------------------------------------------------------------------- C4
\* C4: shutdown() after shutdown_complete has been emitted is a no-op: no
\* further emission, no further tab shutdown request, no state change.
C4_ReenterNoop ==
    [][(op'.name = "shutdown" /\ shutdownCalls >= 1 /\ shutdown_complete >= 1) =>
           /\ shutdown_complete' = shutdown_complete
           /\ requested' = requested
           /\ UNCHANGED <<tabs, cur, _tabs, _url_stack, url, created,
                          delivered, connected>>]_vars

\* ---------------------------------------------------------------------- C5
\* C5: the callback of a tab that has already confirmed changes neither the
\* tabs still pending nor the number of shutdown_complete emissions, and
\* raises nothing.
C5_SecondReportIgnored ==
    [][(op'.name = "cb" /\ delivered[op'.count] >= 1) =>
           /\ _tabs' = _tabs
           /\ shutdown_complete' = shutdown_complete
           /\ op'.exc = ""]_vars

\* ---------------------------------------------------------------------- C6
\* C6: once shutdown() has been called with at least one open tab,
\* shutdown_complete is eventually emitted, whatever commands interleave.
C6_EventuallyComplete ==
    (shutdownCalls >= 1 /\ drain.batch # {}) ~> (shutdown_complete >= 1)

\* ---------------------------------------------------------------------- C7
\* C7: the active index is -1 ("none") exactly when the widget has no page,
\* and otherwise an index of one of its pages.
C7_ActiveIndexValid ==
    /\ (cur = -1) <=> (count = 0)
    /\ count > 0 => (cur >= 0 /\ cur < count)

\* tabclose(count) has removed a page before the current one, which is now
\* the last page: the index had to follow.
C7_Witness ==
    /\ op.name = "tabclose"
    /\ op.given
    /\ op.count >= 1
    /\ op.count - 1 < cur
    /\ count >= 2
    /\ cur = count - 1
    /\ _url_stack # <<>>

\* ---------------------------------------------------------------------- C8
\* C8: tabclose on a widget of exactly one tab removes nothing, asks for no
\* shutdown and pushes nothing; on that tab, last_close = 'blank' navigates
\* it to about:blank and last_close = 'quit' emits quit once and changes
\* nothing else.
C8_LastTab ==
    [][(op'.name = "tabclose" /\ count = 1) =>
           /\ tabs' = tabs
           /\ cur' = cur
           /\ _tabs' = _tabs
           /\ requested' = requested
           /\ _url_stack' = _url_stack
           /\ (TargetPos(op') = 1 /\ op'.cfg = "blank") =>
                  /\ url' = [url EXCEPT ![tabs[1]] = Blank]
                  /\ quit' = 0
           /\ (TargetPos(op') = 1 /\ op'.cfg = "quit") =>
                  /\ quit' = 1
                  /\ url' = url
                  /\ UNCHANGED <<created, delivered, connected,
                                 shutdown_complete>>
           /\ TargetPos(op') = 0 => (quit' = 0 /\ url' = url)]_vars

\* The only tab was closed under 'blank' and then under 'quit'.
C8_Witness ==
    /\ op.name = "tabclose"
    /\ op.cfg = "quit"
    /\ count = 1
    /\ quit = 1
    /\ url[tabs[1]] = Blank

\* ---------------------------------------------------------------------- C9
\* C9: tabclose on a valid target while more than one tab is visible emits
\* no quit and navigates nothing; it pushes the target's URL, removes exactly
\* the target from the widget and asks it once to shut down. The last-tab
\* policy acts only when exactly one tab is left.
C9_CloseOfMany ==
    [][op'.name = "tabclose" =>
           /\ (count > 1 /\ TargetPos(op') > 0) =>
                  LET p == TargetPos(op')
                      tab == tabs[p]
                  IN
                  /\ quit' = 0
                  /\ url' = url
                  /\ _url_stack' = Append(_url_stack, url[tab])
                  /\ tabs' = DropAt(tabs, p)
                  /\ Len(tabs') = count - 1
                  /\ requested' = [requested EXCEPT ![tab] = @ + 1]
           /\ (quit' = 1 \/ url' # url) => count = 1]_vars

\* Every tab created but one was closed, none by the last-tab policy.
C9_Witness ==
    /\ op.name = "tabclose"
    /\ count = 1
    /\ Len(_url_stack) >= 2
    /\ created = Len(_url_stack) + 1
    /\ quit = 0
    /\ \A t \in TabIds : url[t] # Blank

\* --------------------------------------------------------------------- C10
\* C10: the undo stack is LIFO. A close pushes on top; an undo on a stack
\* that is not empty opens its top URL in a new foreground tab and pops it;
\* an undo on the empty stack reports "Nothing to undo!" and opens nothing.
C10_UndoLifo ==
    [][/\ (op'.name = "tabclose" /\ _url_stack' # _url_stack) =>
              /\ Len(_url_stack') = Len(_url_stack) + 1
              /\ SubSeq(_url_stack', 1, Len(_url_stack)) = _url_stack
       /\ (op'.name = "undo" /\ _url_stack # <<>>) =>
              /\ _url_stack' = SubSeq(_url_stack, 1, Len(_url_stack) - 1)
              /\ Len(tabs') = count + 1
              /\ SubSeq(tabs', 1, count) = tabs
              /\ url'[tabs'[count + 1]] = _url_stack[Len(_url_stack)]
              /\ cur' = count
              /\ op'.err = ""
       /\ (op'.name = "undo" /\ _url_stack = <<>>) =>
              /\ op'.err = "Nothing to undo!"
              /\ UNCHANGED <<tabs, cur, _url_stack, url, created>>]_vars

\* Tab A ("a") and then tab B ("b") were closed; the undo that ran last
\* reopened "b" in a new foreground tab and left "a" on the stack.
C10_Witness ==
    /\ op.name = "undo"
    /\ op.err = ""
    /\ _url_stack = <<"a">>
    /\ created = 4
    /\ tabs[count] = created
    /\ url[created] = "b"
    /\ cur = count - 1
    /\ Cardinality({t \in TabIds : requested[t] = 1}) = 2

\* --------------------------------------------------------------------- C11
\* C11: with wrap enabled and at least one tab, switch_next(count) with
\* count >= 1 makes (current + count) mod tabCount the active index and
\* switch_prev(count) makes it (current - count) mod tabCount, also when count
\* exceeds the number of tabs; the result is an index of a page, no page
\* moves and nothing is reported.
C11_WrapModulo ==
    [][(/\ op'.name \in {"tabnext", "tabprev"}
        /\ op'.cfg = "wrap"
        /\ op'.count >= 1
        /\ count >= 1) =>
           /\ op'.name = "tabnext" => cur' = (cur + op'.count) % count
           /\ op'.name = "tabprev" => cur' = (cur - op'.count) % count
           /\ cur' \in 0..(count - 1)
           /\ tabs' = tabs
           /\ op'.err = ""
           /\ op'.exc = ""]_vars

\* switch_prev, wrapping, has run on two tabs with a count of three, more
\* than a turn around them, and has left the second tab active.
C11_Witness ==
    /\ op.name = "tabprev"
    /\ op.cfg = "wrap"
    /\ count = 2
    /\ op.count = 3
    /\ cur = 1

\* --------------------------------------------------------------------- C12
\* C12: with wrap disabled, switch_next whose target current + count is not
\* below the number of tabs reports "Last tab" and switch_prev whose target
\* current - count is negative reports "First tab", and neither changes the
\* active index, the pages or the undo stack; a target in range moves the
\* active index by exactly count and reports nothing.
C12_NoWrapBoundary ==
    [][(op'.name \in {"tabnext", "tabprev"} /\ op'.cfg = "nowrap") =>
           LET target == IF op'.name = "tabnext" THEN cur + op'.count
                         ELSE cur - op'.count
               outside == IF op'.name = "tabnext" THEN target >= count
                          ELSE target < 0
           IN
           /\ op'.exc = ""
           /\ tabs' = tabs
           /\ _url_stack' = _url_stack
           /\ outside =>
                  /\ op'.err = (IF op'.name = "tabnext" THEN "Last tab"
                                ELSE "First tab")
                  /\ cur' = cur
           /\ ~outside =>
                  /\ op'.err = ""
                  /\ cur' = target]_vars

\* switch_next without wrap was refused on the last of three tabs, one of
\* them closed before: the pages and the undo stack are what they were.
C12_Witness ==
    /\ op.name = "tabnext"
    /\ op.cfg = "nowrap"
    /\ op.err = "Last tab"
    /\ op.count = 1
    /\ count = 2
    /\ cur = 1
    /\ _url_stack = <<"a">>

\* --------------------------------------------------------------------- C13
\* C13: cntwidget(count) is the tab at position count - 1 exactly when
\* 1 <= count <= tabCount and None otherwise; tabclose(count) with a count
\* out of that range (0, negative, above tabCount), or on the widget without
\* tabs, changes neither the pages, the active index, the undo stack nor the
\* tabs asked to shut down, and emits no quit.
C13_CountRange ==
    [][/\ \A c \in CloseCounts \cup {MaxCount + 1} :
              cntwidget(TRUE, c) =
                  IF 1 <= c /\ c <= count THEN tabs[c] ELSE NoTab
       /\ (/\ op'.name = "tabclose"
           /\ \/ count = 0
              \/ op'.given /\ ~(1 <= op'.count /\ op'.count <= count)) =>
              /\ UNCHANGED <<tabs, cur, _tabs, _url_stack, url, requested,
                             delivered, shutdown_complete>>
              /\ quit' = 0
              /\ op'.err = ""
              /\ op'.exc = ""]_vars

\* tabclose(-1) has run on two tabs, one closed before: both are still
\* there, and only the tab closed before was asked to shut down.
C13_Witness ==
    /\ op.name = "tabclose"
    /\ op.given
    /\ op.count = 0 - 1
    /\ count = 2
    /\ _url_stack = <<"a">>
    /\ Cardinality({t \in TabIds : requested[t] >= 1}) = 1
    /\ quit = 0

\* --------------------------------------------------------------------- C14
\* C14: a signal of a tab reaches its cur_* signal, with the value it
\* carries, exactly when the tab is the current page at the emission: never
\* from a background tab, from a tab removed from the widget, or when the
\* widget has no current page.
C14_ForwardedIffCurrent ==
    [][op'.name = "event" =>
           cur_out' = IF /\ cur >= 0
                         /\ cur < count
                         /\ tabs[cur + 1] = op'.count
                      THEN {<<op'.cfg, op'.value>>}
                      ELSE {}]_vars

\* The signal of a closed tab was dropped while the widget shows another
\* tab, and a background tab of the widget holds a value it was not allowed
\* to forward.
C14_Witness ==
    /\ op.name = "event"
    /\ op.count \notin Range(tabs)
    /\ cur_out = {}
    /\ count >= 2
    /\ \E i \in 1..count :
           i # cur + 1 /\ signal_cache[tabs[i]]["loadProgress"] # NoValue

\* --------------------------------------------------------------------- C15
\* The page of pages ts at index i, 0 when there is none.
PageAt(ts, i) == IF i >= 0 /\ i < Len(ts) THEN ts[i + 1] ELSE 0

\* A command has made another tab the current page.
C15_Activated == op'.name # "event" /\ PageAt(tabs', cur') \notin {0, PageAt(tabs, cur)}

\* The cur_* emissions are the value the newly current tab's cache holds for
\* every signal it holds one for, and nothing else.
C15_CacheReplayed ==
    LET tab == PageAt(tabs', cur') IN
    cur_out' = {e \in Kinds \X Values : signal_cache[tab][e[1]] = e[2]}

\* A signal leaves its value, and so the latest one, in its tab's cache.
C15_LatestHeld ==
    op'.name = "event" => signal_cache'[op'.count][op'.cfg] = op'.value

\* C15 as stated: whenever a tab becomes the current page (foreground open,
\* switch, undo, close of the current page), the value its cache holds is
\* replayed for every signal it has produced, the latest value only, and no
\* signal it has not produced is replayed.
C15_ReplayOnActivation ==
    [][/\ C15_Activated => C15_CacheReplayed
       /\ C15_LatestHeld]_vars

\* C15 amended: the same, for a tab that becomes the current page before the
\* first shutdown(); shutdown() unwires the replay.
C15_ReplayBeforeShutdown ==
    [][/\ (shutdownCalls = 0 /\ C15_Activated) => C15_CacheReplayed
       /\ C15_LatestHeld]_vars

\* Before any shutdown() a switch made a tab current that had emitted
\* loadProgress and no loadStarted since: its progress, last the value 2,
\* was replayed and nothing else.
C15_Witness ==
    /\ shutdownCalls = 0
    /\ op.name \in {"tabnext", "tabprev"}
    /\ count >= 2
    /\ cur_out = {<<"loadProgress", 2>>}
    /\ signal_cache[tabs[cur + 1]]["loadStarted"] = NoValue

\* --------------------------------------------------------------------- C16
\* C16: shutdown() leaves currentChanged unwired, in the call and so before
\* any tab has answered its shutdown request, and after it no command that
\* changes the current page replays a cache.
C16_NoReplayAfterShutdown ==
    [][/\ op'.name = "shutdown" => (~connected' /\ cur_out' = {})
       /\ (shutdownCalls >= 1 /\ op'.name # "event") =>
              (~connected' /\ cur_out' = {})]_vars

\* After shutdown() a switch made a tab current whose cache holds a value:
\* nothing was replayed.
C16_Witness ==
    /\ shutdownCalls >= 1
    /\ op.name \in {"tabnext", "tabprev"}
    /\ count >= 2
    /\ signal_cache[tabs[cur + 1]]["loadProgress"] # NoValue
    /\ cur_out = {}

\* --------------------------------------------------------------------- C17
\* C17: loadStarted clears the whole cache of its tab before it reaches the
\* filter and the cache itself: right after it the cache holds loadStarted
\* and no value from before, the caches of the other tabs are untouched, and
\* what a later change of the current page replays is held by the cache.
C17_ClearedOnLoadStarted ==
    [][/\ (op'.name = "event" /\ op'.cfg = "loadStarted") =>
              /\ signal_cache'[op'.count] =
                     [k \in Kinds |-> IF k = "loadStarted" THEN op'.value
                                      ELSE NoValue]
              /\ \A t \in TabIds \ {op'.count} :
                     signal_cache'[t] = signal_cache[t]
       /\ op'.name # "event" =>
              \A e \in cur_out' :
                  signal_cache'[PageAt(tabs', cur')][e[1]] = e[2]]_vars

\* A switch made a tab current that had emitted loadStarted: the replay
\* was loadStarted alone.
C17_Witness ==
    /\ op.name \in {"tabnext", "tabprev"}
    /\ count >= 2
    /\ cur_out = {<<"loadStarted", 1>>}

\* --------------------------------------------------------------------- C18
\* C18: every tab is asked to shut down at most once in its life, whatever
\* the interleaving of tabclose() and shutdown(): a tab that shutdown() has
\* asked is not asked again by a later tabclose() or shutdown().
C18_AskedAtMostOnce == \A t \in TabIds : requested[t] <= 1

\* --------------------------------------------------------------------- C19
\* C19: before the first shutdown() the shutdown_complete signal is never
\* emitted: _tabs holds every tab of the widget, so the confirmation of a tab
\* closed with tabclose() leaves it non-empty.
C19_IdleNeverCompletes ==
    shutdownCalls = 0 =>
        /\ shutdown_complete = 0
        /\ Range(tabs) \subseteq Range(_tabs)
        /\ (op.name = "cb" => _tabs # <<>>)

\* Two of three tabs were closed with tabclose() and both have confirmed,
\* with no shutdown(): _tabs is down to the one tab of the widget.
C19_Witness ==
    /\ shutdownCalls = 0
    /\ op.name = "cb"
    /\ count = 1
    /\ _tabs = tabs
    /\ Cardinality({t \in TabIds : delivered[t] = 1}) = 2

\* --------------------------------------------------------------------- C20
\* C20: switch_next and switch_prev are total: for every count >= 0, either
\* setting of wrap and every widget, the one without tabs included, the
\* command raises nothing and leaves the active index -1 ("none") or the
\* index of a page.
C20_SwitchTotal ==
    [][op'.name \in {"tabnext", "tabprev"} =>
           /\ op'.exc = ""
           /\ cur' = 0 - 1 \/ cur' \in 0..(count - 1)]_vars
====
